---- MODULE Spec2Model ----
(***************************************************************************)
(* AI Travel Planner (streamlit_app.py).                                   *)
(*                                                                         *)
(* The model covers the three tool adapters, the ReAct agent executor as   *)
(* it is configured at lines 84-90 (max_iterations, max_execution_time,    *)
(* every other option of langchain's AgentExecutor at its default:         *)
(* handle_parsing_errors = False, early_stopping_method = "force"), the    *)
(* sidebar form with its session state, and the "Generate Travel Plan"     *)
(* handler with the day split and the download.                            *)
(*                                                                         *)
(* Strings that the code cuts, joins or trims are sequences of pieces: a   *)
(* piece is one word, one whitespace character, or the literal "Day ".     *)
(* The empty string is << >>.                                              *)
(***************************************************************************)
EXTENDS Integers, Sequences, FiniteSets

\* ------------------------------------------------------------------ bounds
\* Longest final answer the reasoning engine produces, in pieces.
MaxTextLen == 3
\* Most result documents the search service returns in the model
\* (the service itself is asked for at most max_results).
MaxDocs == 2
\* Seconds one slow loop iteration takes (a fast one takes 0 at this
\* resolution).
SlowStep == 60

\* ------------------------------------------------------- program constants
max_results == 5
max_iterations == 15
max_execution_time == 120
min_value == 1
max_value == 30

\* ------------------------------------------------------------------ strings
Whitespace == {" ", "\n"}
DayMarker == "Day "

RECURSIVE lstrip(_)
lstrip(s) ==
    IF s = << >> THEN << >>
    ELSE IF Head(s) \in Whitespace THEN lstrip(Tail(s)) ELSE s

RECURSIVE rstrip(_)
rstrip(s) ==
    IF s = << >> THEN << >>
    ELSE IF s[Len(s)] \in Whitespace THEN rstrip(SubSeq(s, 1, Len(s) - 1)) ELSE s

\* str.strip(): leading and trailing whitespace removed.
strip(s) == rstrip(lstrip(s))

\* str.split("Day "): the pieces between the occurrences of the separator,
\* the separator dropped; a text without it is returned whole, as one piece.
RECURSIVE split(_)
split(s) ==
    IF s = << >> THEN << << >> >>
    ELSE LET rest == split(Tail(s)) IN
         IF Head(s) = DayMarker THEN << << >> >> \o rest
         ELSE << <<Head(s)>> \o Head(rest) >> \o Tail(rest)

RECURSIVE SeqsUpTo(_, _)
SeqsUpTo(S, n) ==
    IF n = 0 THEN { << >> }
    ELSE LET shorter == SeqsUpTo(S, n - 1) IN
         shorter \cup { <<x>> \o s : x \in S, s \in { t \in shorter : Len(t) = n - 1 } }

\* ----------------------------------------------------------------- state
VARIABLES
    open_weather_api_key,  \* os.getenv("OPEN_WEATHER_API_KEY"): "" when not set
    city_input,            \* st.session_state.city_input
    duration_input,        \* st.session_state.duration_input
    interests_input,       \* st.session_state.interests_input
    time_input,            \* st.session_state.time_input
    phase,                 \* Idle, Thinking, Dispatching, Done, Aborted
    abort_reason,          \* none, limit, parse_error, tool_error
    iterations,            \* the executor's iteration counter
    time_elapsed,          \* seconds since the executor started
    intermediate_steps,    \* the scratchpad: its length and its last pair
    pending,               \* the AgentAction under dispatch
    llm_calls,             \* reasoning calls made by the current run
    last_call,             \* the adapter run by the latest loop step, if any
    ui                     \* what the page shows after the script run

vars == << open_weather_api_key, city_input, duration_input, interests_input,
           time_input, phase, abort_reason, iterations, time_elapsed,
           intermediate_steps, pending, llm_calls, last_call, ui >>

form == << city_input, duration_input, interests_input, time_input >>

\* ----------------------------------------------------------- tool adapters
\* What running an adapter gives: a returned string, or an exception that
\* leaves the adapter. requested: whether a network request was issued.
Return(v, req) == [kind |-> "return", exc |-> "", value |-> v, requested |-> req]
Raise(e, m, req) == [kind |-> "raise", exc |-> e, value |-> m, requested |-> req]

ConfigError == Raise("ValueError", <<"OpenWeather API key is not set.">>, FALSE)

\* Result documents of the search service: the content field is optional.
Contents == { << >>, <<"a">>, <<"b">> }
Docs == { [has_content |-> FALSE, content |-> << >>] }
        \cup { [has_content |-> TRUE, content |-> c] : c \in Contents }

\* What TavilySearch.invoke gives: it raises, or returns a document without
\* a results list, or returns ranked results.
SearchResponses ==
    { [kind |-> "raise", results |-> << >>],
      [kind |-> "error_dict", results |-> << >>] }
    \cup { [kind |-> "ok", results |-> rs]
              : rs \in SeqsUpTo(Docs, IF MaxDocs < max_results THEN MaxDocs ELSE max_results) }

\* Lines 49-52: the contents of the results that have one, each followed
\* by a newline, in ranked order.
RECURSIVE combined_content(_)
combined_content(results) ==
    IF results = << >> THEN << >>
    ELSE LET result == Head(results) IN
         (IF result.has_content /\ result.content # << >>
            THEN result.content \o <<"\n">>
            ELSE << >>)
         \o combined_content(Tail(results))

tavily_search(query, response) ==
    CASE response.kind = "raise" -> Raise("ConnectionError", <<"search failed">>, TRUE)
      [] response.kind = "error_dict" -> Raise("KeyError", <<"'results'">>, TRUE)
      [] OTHER -> Return(strip(combined_content(response.results)), TRUE)

get_hotel_recommendations(location, response) ==
    CASE response.kind = "raise" -> Raise("ConnectionError", <<"search failed">>, TRUE)
      [] response.kind = "error_dict" -> Raise("KeyError", <<"'results'">>, TRUE)
      [] OTHER ->
           IF response.results # << >>
           THEN IF response.results[1].has_content
                THEN Return(response.results[1].content, TRUE)
                ELSE Raise("KeyError", <<"'content'">>, TRUE)
           ELSE Return(<<"No hotel recommendations found.">>, TRUE)

\* What requests.get(url) followed by response.json() gives.
FullData == [has_main |-> TRUE, has_temp |-> TRUE, temp |-> "25",
             weather |-> << [has_description |-> TRUE, description |-> "clear sky"] >>]
WeatherResponses ==
    { [kind |-> "raise", data |-> FullData],
      [kind |-> "not_json", data |-> FullData],
      [kind |-> "json", data |-> FullData],
      [kind |-> "json", data |-> [FullData EXCEPT !.has_temp = FALSE]],
      [kind |-> "json", data |-> [FullData EXCEPT !.has_main = FALSE]],
      [kind |-> "json", data |-> [FullData EXCEPT !.weather = << >>]],
      [kind |-> "json", data |-> [FullData EXCEPT !.weather =
                    << [has_description |-> FALSE, description |-> ""] >>]] }

\* Lines 60-65: the request, the two lookups and the summary sentence.
weather_request(location, response) ==
    CASE response.kind = "raise" -> Raise("ConnectionError", <<"weather request failed">>, TRUE)
      [] response.kind = "not_json" -> Raise("JSONDecodeError", <<"Expecting value">>, TRUE)
      [] OTHER ->
           LET data == response.data IN
           IF ~data.has_main THEN Raise("KeyError", <<"'main'">>, TRUE)
           ELSE IF ~data.has_temp THEN Raise("KeyError", <<"'temp'">>, TRUE)
           ELSE IF data.weather = << >> THEN Raise("IndexError", <<"list index out of range">>, TRUE)
           ELSE IF ~data.weather[1].has_description
                THEN Raise("KeyError", <<"'description'">>, TRUE)
           ELSE Return(<<"The current temperature in ", location, " is ", data.temp,
                         "C with ", data.weather[1].description, ".">>, TRUE)

\* A get_weather that goes to the network without looking at the credential.
get_weather_NoKeyCheck(location, response) == weather_request(location, response)

get_weather(location, response) ==
    IF open_weather_api_key = ""
    THEN ConfigError
    ELSE weather_request(location, response)

\* Line 81: the registered tools, by name.
tools == { "tavily_search", "get_weather", "get_hotel_recommendations" }

\* The location strings the reasoning engine passes to a tool.
Locations == { "Paris" }

\* One run of a search-backed adapter, for each input: the upstream answer
\* is whatever the service gives.
SearchOutcomes ==
    [q \in Locations |->
       { [upstream |-> r.kind, outcome |-> tavily_search(q, r)] : r \in SearchResponses }]
HotelOutcomes ==
    [q \in Locations |->
       { [upstream |-> r.kind, outcome |-> get_hotel_recommendations(q, r)]
           : r \in SearchResponses }]

\* One adapter run.
ToolOutcomes(tool, tool_input) ==
    CASE tool = "tavily_search" -> SearchOutcomes[tool_input]
      [] tool = "get_hotel_recommendations" -> HotelOutcomes[tool_input]
      [] OTHER ->
           { [upstream |-> IF r.kind = "json" /\ r.data # FullData THEN "incomplete" ELSE r.kind,
              outcome |-> get_weather(tool_input, r)]
               : r \in WeatherResponses }

\* ---------------------------------------------------------- agent executor
NoAction == [tool |-> "", tool_input |-> ""]
NoStep == [action |-> NoAction, observation |-> << >>]
NoSteps == [n |-> 0, last |-> NoStep]
NoCall == [tool |-> "", upstream |-> "", outcome |-> Return(<< >>, FALSE)]

\* intermediate_steps.extend([(action, observation)])
append_step(steps, action, observation) ==
    [n |-> steps.n + 1, last |-> [action |-> action, observation |-> observation]]

\* The reasoning engine's raw continuations: a tool request, a final answer,
\* both at once, or neither.
ToolChoices == tools \cup { "book_flight" }
\* A final answer is not blank.
FinalTexts == { t \in SeqsUpTo({ DayMarker, "x", " " }, MaxTextLen) : strip(t) # << >> }
LLMOutputs ==
    { [has_action |-> TRUE, has_final |-> f, tool |-> t, tool_input |-> q, text |-> << >>]
        : f \in BOOLEAN, t \in ToolChoices, q \in Locations }
    \cup { [has_action |-> FALSE, has_final |-> TRUE, tool |-> "", tool_input |-> "", text |-> x]
        : x \in FinalTexts }
    \cup { [has_action |-> FALSE, has_final |-> FALSE, tool |-> "", tool_input |-> "",
            text |-> <<"x">>] }

\* The ReAct output parser of create_react_agent (line 83).
parse(out) ==
    IF out.has_action
    THEN IF out.has_final
         THEN [type |-> "error", action |-> NoAction, output |-> << >>]
         ELSE [type |-> "action",
               action |-> [tool |-> out.tool, tool_input |-> out.tool_input],
               output |-> << >>]
    ELSE IF out.has_final
         THEN [type |-> "finish", action |-> NoAction, output |-> strip(out.text)]
         ELSE [type |-> "error", action |-> NoAction, output |-> << >>]

\* What the parser makes of the engine's continuations.
Parsed == { parse(out) : out \in LLMOutputs }

ParseErrorMessage == <<"An output parsing error occurred.">>
StopMessage == <<"Agent stopped due to iteration limit or time limit.">>
InvalidToolMessage(name) ==
    << name, " is not a valid tool, try one of [",
       "tavily_search, get_weather, get_hotel_recommendations", "]." >>

\* A loop condition that lets one iteration too many through.
should_continue_OffByOne(i, t) == i <= max_iterations /\ t < max_execution_time

\* Lines 88-89: the executor goes on while both budgets hold.
should_continue(i, t) == i < max_iterations /\ t < max_execution_time

\* A dispatch that looks the tool up without a fallback.
perform_agent_action_NoFallback(action) ==
    IF action.tool \in tools
    THEN { [call |-> [tool |-> action.tool, upstream |-> r.upstream, outcome |-> r.outcome],
            result |-> r.outcome] : r \in ToolOutcomes(action.tool, action.tool_input) }
    ELSE { [call |-> NoCall, result |-> Raise("KeyError", <<action.tool>>, FALSE)] }

\* Lines 81, 86: the named tool is run; a name that is not registered runs
\* no adapter and gives the "not a valid tool" observation.
perform_agent_action(action) ==
    IF action.tool \in tools
    THEN { [call |-> [tool |-> action.tool, upstream |-> r.upstream, outcome |-> r.outcome],
            result |-> r.outcome] : r \in ToolOutcomes(action.tool, action.tool_input) }
    ELSE { [call |-> NoCall, result |-> Return(InvalidToolMessage(action.tool), FALSE)] }

\* ------------------------------------------------------------------ the page
NoDownload == [file_name |-> << >>, data |-> << >>]
Blank == [kind |-> "none", message |-> << >>, sections |-> << >>, download |-> NoDownload]
Warning == [kind |-> "warning", message |-> <<"Please fill in all required fields.">>,
            sections |-> << >>, download |-> NoDownload]
ErrorView(e) == [kind |-> "error", message |-> <<"Something went wrong: ">> \o e,
                 sections |-> << >>, download |-> NoDownload]

\* Lines 168-171: the trimmed pieces after the first one, in order.
day_sections(plan_text) ==
    LET days == split(plan_text) IN
    [i \in 1..(Len(days) - 1) |-> strip(days[i + 1])]

\* Lines 162-184: the banner, the day expanders and the download.
SuccessView(city, plan_text) ==
    [kind |-> "success", message |-> <<"Here's your travel plan:">>,
     sections |-> day_sections(plan_text),
     download |-> [file_name |-> <<city, "_travel_plan.txt">>,
                   data |-> <<"AI Travel Plan for ", city, "\n", "\n">> \o plan_text]]

\* A check that looks at the city alone.
required_fields_filled_CityOnly(city, interests, time_of_year) == city # ""

\* Line 143: not city or not interests or not time_of_year, negated.
required_fields_filled(city, interests, time_of_year) ==
    city # "" /\ interests # "" /\ time_of_year # ""

\* ------------------------------------------------------------------- Init
CityValues == { "", "Kolhapur" }
InterestValues == { "", "food, history" }
TimeValues == { "", "August" }
DurationValues == { min_value, max_value }
KeyValues == { "", "owm-key" }

\* Lines 24, 106-113: the credential as the environment has it, the form at
\* its defaults, nothing run yet.
Init ==
    /\ open_weather_api_key \in KeyValues
    /\ city_input = ""
    /\ duration_input = min_value
    /\ interests_input = ""
    /\ time_input = ""
    /\ phase = "Idle"
    /\ abort_reason = "none"
    /\ iterations = 0
    /\ time_elapsed = 0
    /\ intermediate_steps = NoSteps
    /\ pending = NoAction
    /\ llm_calls = 0
    /\ last_call = NoCall
    /\ ui = Blank

Running == phase \in { "Thinking", "Dispatching" }
Terminal == phase \in { "Done", "Aborted" }

\* A script run in which "Generate Travel Plan" was not pressed: nothing of
\* an earlier run is drawn again.
Rerun ==
    /\ phase' = "Idle"
    /\ abort_reason' = "none"
    /\ iterations' = 0
    /\ time_elapsed' = 0
    /\ intermediate_steps' = NoSteps
    /\ pending' = NoAction
    /\ llm_calls' = 0
    /\ last_call' = NoCall
    /\ ui' = Blank
    /\ UNCHANGED open_weather_api_key

\* ---------------------------------------------------------------- the form
\* Lines 126-129: editing a widget stores the value under its key.
EditCity ==
    /\ ~Running
    /\ \E v \in CityValues : city_input' = v
    /\ UNCHANGED << duration_input, interests_input, time_input >>
    /\ Rerun

EditDuration ==
    /\ ~Running
    /\ \E v \in DurationValues : duration_input' = v
    /\ UNCHANGED << city_input, interests_input, time_input >>
    /\ Rerun

EditInterests ==
    /\ ~Running
    /\ \E v \in InterestValues : interests_input' = v
    /\ UNCHANGED << city_input, duration_input, time_input >>
    /\ Rerun

EditTime ==
    /\ ~Running
    /\ \E v \in TimeValues : time_input' = v
    /\ UNCHANGED << city_input, duration_input, interests_input >>
    /\ Rerun

\* Lines 117-121, 132: the Clear Inputs callback, then the script run.
clear_inputs ==
    /\ ~Running
    /\ city_input' = ""
    /\ duration_input' = min_value
    /\ interests_input' = ""
    /\ time_input' = ""
    /\ Rerun

\* Lines 142-161: Generate Travel Plan. Either the warning, or the executor
\* is entered with an empty scratchpad.
Generate ==
    /\ ~Running
    /\ UNCHANGED << open_weather_api_key, form >>
    /\ abort_reason' = "none"
    /\ iterations' = 0
    /\ time_elapsed' = 0
    /\ intermediate_steps' = NoSteps
    /\ pending' = NoAction
    /\ llm_calls' = 0
    /\ last_call' = NoCall
    /\ IF required_fields_filled(city_input, interests_input, time_input)
       THEN phase' = "Thinking" /\ ui' = Blank
       ELSE phase' = "Idle" /\ ui' = Warning

\* ------------------------------------------------------------- the executor
\* invoke returns or raises: the executor's locals are gone.
Leave ==
    /\ iterations' = 0
    /\ time_elapsed' = 0
    /\ intermediate_steps' = NoSteps
    /\ pending' = NoAction

\* One reasoning call whose continuation is a final answer: invoke returns
\* it and lines 162-184 draw the plan.
ThinkFinish ==
    /\ phase = "Thinking"
    /\ should_continue(iterations, time_elapsed)
    /\ \E step \in Parsed :
         /\ step.type = "finish"
         /\ ui' = SuccessView(city_input, step.output)
    /\ llm_calls' = llm_calls + 1
    /\ phase' = "Done"
    /\ last_call' = NoCall
    /\ Leave
    /\ UNCHANGED << open_weather_api_key, form, abort_reason >>

\* One reasoning call whose continuation names a tool.
ThinkInvoke ==
    /\ phase = "Thinking"
    /\ should_continue(iterations, time_elapsed)
    /\ \E step \in Parsed :
         /\ step.type = "action"
         /\ pending' = step.action
    /\ llm_calls' = llm_calls + 1
    /\ phase' = "Dispatching"
    /\ last_call' = NoCall
    /\ UNCHANGED << open_weather_api_key, form, abort_reason, iterations, time_elapsed,
                    intermediate_steps, ui >>

\* One reasoning call whose continuation does not parse: with
\* handle_parsing_errors left at False the executor raises, and line 188
\* draws the error.
ThinkParseError ==
    /\ phase = "Thinking"
    /\ should_continue(iterations, time_elapsed)
    /\ \E step \in Parsed : step.type = "error"
    /\ llm_calls' = llm_calls + 1
    /\ phase' = "Aborted"
    /\ abort_reason' = "parse_error"
    /\ ui' = ErrorView(ParseErrorMessage)
    /\ last_call' = NoCall
    /\ Leave
    /\ UNCHANGED << open_weather_api_key, form >>

\* The check between iterations fails: the executor returns its stopping
\* response as the output, and lines 162-184 draw it.
Stop ==
    /\ phase = "Thinking"
    /\ ~should_continue(iterations, time_elapsed)
    /\ phase' = "Aborted"
    /\ abort_reason' = "limit"
    /\ ui' = SuccessView(city_input, StopMessage)
    /\ last_call' = NoCall
    /\ Leave
    /\ UNCHANGED << open_weather_api_key, form, llm_calls >>

\* The pending action is carried out. A returned string is appended to the
\* scratchpad with its action and the next iteration starts; an exception
\* leaves the executor and line 188 draws it.
Dispatch ==
    /\ phase = "Dispatching"
    /\ \E r \in perform_agent_action(pending) :
         /\ last_call' = r.call
         /\ IF r.result.kind = "return"
            THEN /\ intermediate_steps' =
                      append_step(intermediate_steps, pending, r.result.value)
                 /\ iterations' = iterations + 1
                 /\ \E d \in { 0, SlowStep } : time_elapsed' = time_elapsed + d
                 /\ pending' = NoAction
                 /\ phase' = "Thinking"
                 /\ UNCHANGED << abort_reason, ui >>
            ELSE /\ phase' = "Aborted"
                 /\ abort_reason' = "tool_error"
                 /\ ui' = ErrorView(r.result.value)
                 /\ Leave
    /\ UNCHANGED << open_weather_api_key, form, llm_calls >>

LoopStep == ThinkFinish \/ ThinkInvoke \/ ThinkParseError \/ Stop \/ Dispatch

Next ==
    \/ EditCity
    \/ EditDuration
    \/ EditInterests
    \/ EditTime
    \/ clear_inputs
    \/ Generate
    \/ ThinkFinish
    \/ ThinkInvoke
    \/ ThinkParseError
    \/ Stop
    \/ Dispatch

Spec == Init /\ [][Next]_vars

\* Every call of the loop is blocking and returns: a run in progress takes
\* its next step.
FairSpec == Spec /\ WF_vars(LoopStep)

\* ------------------------------------------------------------------ claims
\* The plan text behind a drawn plan: the download's data after its heading.
PlanText == SubSeq(ui.download.data, 5, Len(ui.download.data))

RECURSIVE Markers(_)
Markers(s) ==
    IF s = << >> THEN 0
    ELSE (IF Head(s) = DayMarker THEN 1 ELSE 0) + Markers(Tail(s))

TransientFailures == { "raise", "error_dict", "not_json", "incomplete" }

\* C1: a run never makes more than max_iterations reasoning calls, a failed
\* between-iteration check is followed by Aborted with the limit reason, and
\* every run in Thinking or Dispatching reaches Done or Aborted.
C1_LoopTerminates ==
    /\ [](iterations <= max_iterations /\ llm_calls <= max_iterations)
    /\ [][ (phase = "Thinking"
              /\ (iterations >= max_iterations \/ time_elapsed >= max_execution_time))
           => (phase' = "Aborted" /\ abort_reason' = "limit") ]_vars
    /\ (Running ~> Terminal)

\* A run stopped by the iteration cap after exactly max_iterations calls.
C1_Witness ==
    phase = "Aborted" /\ abort_reason = "limit" /\ llm_calls = max_iterations

\* C2: a first response that does not parse does not abort the run (the run
\* goes on to a second reasoning call).
C2_NoAbortOnFirstMalformed ==
    ~(phase = "Aborted" /\ abort_reason = "parse_error" /\ llm_calls = 1)

\* C3: a run whose every response is unparsable is aborted only by the
\* response that brings the reasoning calls to the configured limit, and
\* draws no day section.
C3_AbortAtRetryLimit ==
    [][ (ThinkParseError /\ iterations = 0)
        => (llm_calls' = max_iterations /\ ui'.sections = << >>) ]_vars

\* C4: a run ended by the iteration or time budget is drawn as an error,
\* with no banner, no day section and no download; a banner is drawn only
\* for a run that ended in Done.
C4_ExhaustionIsAnError ==
    /\ (phase = "Aborted" /\ abort_reason = "limit")
         => (ui.kind = "error" /\ ui.sections = << >> /\ ui.download = NoDownload)
    /\ ui.kind = "success" => phase = "Done"

\* C5: an adapter run against a failing or malformed upstream (the weather
\* adapter with its credential set) returns a non-empty string and the run
\* is not aborted by it.
C5_AdaptersNeverRaise ==
    (/\ last_call.tool \in tools
     /\ last_call.upstream \in TransientFailures
     /\ (last_call.tool = "get_weather" => open_weather_api_key # ""))
    => (/\ last_call.outcome.kind = "return"
        /\ last_call.outcome.value # << >>
        /\ abort_reason # "tool_error")

\* C6: without the weather credential every weather call ends in the
\* configuration error and issues no request; with the credential no
\* adapter call ends in it, and no transient failure gives its message.
C6_WeatherConfigError ==
    /\ (last_call.tool = "get_weather" /\ open_weather_api_key = "")
         => (last_call.outcome = ConfigError /\ ~last_call.outcome.requested)
    /\ (last_call.tool # "" /\ open_weather_api_key # "")
         => (/\ last_call.outcome # ConfigError
             /\ last_call.outcome.value # ConfigError.value
             /\ (last_call.tool = "get_weather" => last_call.outcome.requested))

\* A weather call made without the credential.
C6_Witness ==
    /\ open_weather_api_key = ""
    /\ last_call.tool = "get_weather"
    /\ last_call.outcome = ConfigError
    /\ phase = "Aborted"

\* C7: a drawn plan with no day marker has exactly one section, the trimmed
\* text; one with exactly three markers has exactly three sections.
C7_SplitSections ==
    (phase = "Done" /\ ui.kind = "success")
    => (/\ Markers(PlanText) = 0 => ui.sections = << strip(PlanText) >>
        /\ Markers(PlanText) = 3 => Len(ui.sections) = 3)

\* C8: the search adapter never returns the empty string.
C8_SearchNeverEmpty ==
    (last_call.tool = "tavily_search" /\ last_call.outcome.kind = "return")
    => last_call.outcome.value # << >>

\* C9: a run is in progress only for a Task with destination, interests and
\* season non-empty and a duration in 1..30, it is entered only by Generate,
\* and a Generate with a required field empty draws the warning and makes no
\* reasoning call and no tool call.
C9_ValidationPrecedesLoop ==
    /\ [](Running => (/\ city_input # ""
                      /\ interests_input # ""
                      /\ time_input # ""
                      /\ duration_input \in min_value..max_value))
    /\ [][ /\ (~Running /\ Running') => (Generate /\ llm_calls' = 0)
           /\ (Generate /\ (city_input = "" \/ interests_input = "" \/ time_input = ""))
                => (/\ ui' = Warning
                    /\ phase' = "Idle"
                    /\ llm_calls' = 0
                    /\ last_call' = NoCall) ]_vars

\* The warning drawn for a form that Clear Inputs has reset.
C9_Witness ==
    /\ ui = Warning
    /\ city_input = ""
    /\ interests_input = ""
    /\ time_input = ""
    /\ phase = "Idle"
    /\ llm_calls = 0

\* C10: dispatching a tool name that is not registered runs no adapter,
\* appends exactly the (action, not-a-valid-tool observation) pair, leaves
\* the page and the abort reason alone and returns to Thinking.
C10_UnknownToolIsObservation ==
    [][ (phase = "Dispatching" /\ pending.tool \notin tools)
        => (/\ phase' = "Thinking"
            /\ intermediate_steps'.n = intermediate_steps.n + 1
            /\ intermediate_steps'.last =
                 [action |-> pending, observation |-> InvalidToolMessage(pending.tool)]
            /\ last_call' = NoCall
            /\ abort_reason' = abort_reason
            /\ ui' = ui) ]_vars

\* Thinking again with the not-a-valid-tool observation on the scratchpad
\* and budget left for the next reasoning call.
C10_Witness ==
    /\ phase = "Thinking"
    /\ intermediate_steps.n > 0
    /\ intermediate_steps.last.observation = InvalidToolMessage("book_flight")
    /\ should_continue(iterations, time_elapsed)
    /\ ENABLED ThinkFinish

====
